---- MODULE Spec2Model ----
(***************************************************************************)
(* The layer protocol of notebooks/bonus-dl-framework.ipynb: the Dense     *)
(* layer constructor and the serial combinator, each an (init_fun,         *)
(* apply_fun) pair.  Arrays are represented by the seed and the shape they *)
(* were drawn with, data by its shape and the chain of layer operations    *)
(* applied to the caller's input, and a seed by its path in the tree of    *)
(* splits below a root key.                                                *)
(***************************************************************************)
EXTENDS Integers, Sequences, FiniteSets, TLC

VARIABLES
    pc,             \* position of the program: idle, ready, init, apply, ...
    layers,         \* the argument *layers of serial
    nlayers,        \* serial: nlayers = len(layers)
    init_funs,      \* serial: first component of zip(*layers)
    apply_funs,     \* serial: second component of zip(*layers)
    badShapeInit,   \* what the array initializer does with a negative dimension
    rng0,           \* init_fun: the rng argument as passed by the caller
    input_shape0,   \* init_fun: the input_shape argument as passed by the caller
    rng,            \* init_fun: the running local rng
    input_shape,    \* init_fun: the running local input_shape
    params,         \* init_fun: the local list params
    it,             \* index of the next loop iteration of the running call
    layer_rngs,     \* init_fun: the layer_rng handed to each layer so far
    layer_shapes,   \* init_fun: the input_shape handed to each layer so far
    split_rngs,     \* init_fun: the seeds random.split was applied to so far
    initLog,        \* the completed init_fun calls: arguments and outcome
    aparams,        \* apply_fun: the params object held by the caller
    aparams0,       \* apply_fun: value of the params argument at the call
    ainputs0,       \* apply_fun: the inputs argument as passed by the caller
    arng,           \* apply_fun: the rng keyword argument (None is <<>>)
    rngs,           \* apply_fun: the per-layer rngs
    inputs,         \* apply_fun: the running local inputs
    apply_calls,    \* apply_fun: the layer apply calls made so far
    err             \* the exception that ended construction or the last call

vars == <<pc, layers, nlayers, init_funs, apply_funs, badShapeInit,
          rng0, input_shape0, rng, input_shape, params, it, layer_rngs,
          layer_shapes, split_rngs, initLog, aparams, aparams0, ainputs0,
          arng, rngs, inputs, apply_calls, err>>

-----------------------------------------------------------------------------
(* Bounds of the model *)

MaxLayers == 2      \* longest layer sequence enumerated exhaustively
MaxInitResults == 2 \* distinct init_fun calls whose outcome is kept for later calls

-----------------------------------------------------------------------------
(* Values *)

None == <<>>
NoError == "none"

Min(a, b) == IF a <= b THEN a ELSE b

Dense(out_dim) == [kind |-> "Dense", out_dim |-> out_dim]
Activation(name) == [kind |-> name, out_dim |-> 0]
Tanh == Activation("Tanh")
Elu == Activation("Elu")
Logistic == Activation("Logistic")

\* serial(Dense(20), Elu, Dense(1), Tanh) of the usage cell
NotebookModel == <<Dense(20), Elu, Dense(1), Tanh>>
\* model = (Dense(20), Tanh, Dense(1), Logistic) of the API sketch
SketchModel == <<Dense(20), Tanh, Dense(1), Logistic>>

LayerChoices == {Dense(20), Dense(1), Tanh}

RECURSIVE SeqsUpTo(_, _)
SeqsUpTo(S, n) ==
    IF n = 0 THEN {<<>>}
    ELSE LET shorter == SeqsUpTo(S, n - 1)
         IN shorter \cup {Append(s, x) : s \in {t \in shorter : Len(t) = n - 1}, x \in S}

LayerSeqs == SeqsUpTo(LayerChoices, MaxLayers) \cup {NotebookModel, SketchModel}

\* k = PRNGKey(42)
RootKeys == {<<42>>}

\* the rng keyword argument of apply_fun: absent, or a key
ApplyRngs == {None, <<42>>}

\* input_shape arguments: rank 0, the notebook's (-1, 41), rank 1, rank 3,
\* and a trailing wildcard
InputShapes == {<<>>, <<-1, 41>>, <<41>>, <<-1, 3, 41>>, <<5, -1>>}

\* shapes of the data handed to apply_fun (X.values is 1000 x 41)
DataShapes == {<<1000, 41>>, <<1000, 20>>, <<1000, 3, 41>>}

NoArr == [seed |-> <<>>, shape |-> <<>>]
Arr(k, shape) == [seed |-> k, shape |-> shape]
EmptyBlob == [kind |-> "empty", W |-> NoArr, b |-> NoArr]
PairBlob(W, b) == [kind |-> "pair", W |-> W, b |-> b]

Data(shape, ops) == [shape |-> shape, ops |-> ops]

Ok(shape, blob) == [status |-> "ok", err |-> NoError, output_shape |-> shape, params |-> blob]
Raise(e) == [status |-> "raise", err |-> e, output_shape |-> <<>>, params |-> EmptyBlob]

AOk(d) == [status |-> "ok", err |-> NoError, out |-> d]
ARaise(e) == [status |-> "raise", err |-> e, out |-> Data(<<>>, <<>>)]

-----------------------------------------------------------------------------
(* random.split *)

\* random.split(rng, n): n children of rng, the same for the same rng
splitN(k, n) == [j \in 1..n |-> k \o <<j - 1>>]
split(k) == splitN(k, 2)

-----------------------------------------------------------------------------
(* Python sequence helpers *)

\* s[:-1]
ButLast(s) == IF Len(s) = 0 THEN <<>> ELSE SubSeq(s, 1, Len(s) - 1)
\* s[-1], defined for Len(s) > 0
Last(s) == s[Len(s)]

\* variant: the unpacking finds two tuples whatever the number of layers
ZipStarLen_always2(ls) == 2

\* len(list(zip(*layers))): every layer is a pair, so two tuples, or none
ZipStarLen(ls) == IF Len(ls) = 0 THEN 0 ELSE 2

\* variant: the parameter blobs are taken from the end of params
zip3_reversed(fs, ps, rs) ==
    [j \in 1..Min(Len(fs), Min(Len(ps), Len(rs))) |-> <<fs[j], ps[Len(ps) + 1 - j], rs[j]>>]

\* variant: every layer is visited, a missing blob being taken as empty
zip3_longest(fs, ps, rs) ==
    [j \in 1..Len(fs) |-> <<fs[j],
                             IF j <= Len(ps) THEN ps[j] ELSE EmptyBlob,
                             IF j <= Len(rs) THEN rs[j] ELSE None>>]

\* zip(apply_funs, params, rngs): stops at the shortest
zip3(fs, ps, rs) ==
    [j \in 1..Min(Len(fs), Min(Len(ps), Len(rs))) |-> <<fs[j], ps[j], rs[j]>>]

-----------------------------------------------------------------------------
(* Array initializers and numpy shape rules *)

\* variant: the draw also depends on how many init_fun calls came before
initializer_global(k, shape) ==
    IF (\E j \in 1..Len(shape) : shape[j] < 0) /\ badShapeInit = "raises"
    THEN [ok |-> FALSE, arr |-> NoArr]
    ELSE [ok |-> TRUE, arr |-> Arr(k \o <<Cardinality(initLog)>>, shape)]

\* W_init / b_init (glorot_normal(), normal()): an array drawn from seed k with
\* the requested shape.  What an initializer does with a negative dimension
\* is not decided by Dense: it raises its own error or it returns an array.
initializer(k, shape) ==
    IF (\E j \in 1..Len(shape) : shape[j] < 0) /\ badShapeInit = "raises"
    THEN [ok |-> FALSE, arr |-> NoArr]
    ELSE [ok |-> TRUE, arr |-> Arr(k, shape)]

\* variant: the leading (sample) axes of inputs are lost
dot_shape_noBatch(xs, ws) ==
    IF Len(xs) = 0 THEN <<TRUE, ws>>
    ELSE IF Last(xs) # ws[1] THEN <<FALSE, <<>>>>
    ELSE <<TRUE, <<ws[2]>>>>

\* shape of np.dot(inputs, W) for a 2-d W; <<FALSE, _>> when numpy rejects it
dot_shape(xs, ws) ==
    IF Len(xs) = 0 THEN <<TRUE, ws>>
    ELSE IF Last(xs) # ws[1] THEN <<FALSE, <<>>>>
    ELSE <<TRUE, ButLast(xs) \o <<ws[2]>>>>

\* shape of (an array of shape s) + b for a 1-d b, by broadcasting
add_shape(s, bs) ==
    IF Len(s) = 0 THEN <<TRUE, bs>>
    ELSE IF Last(s) = bs[1] \/ bs[1] = 1 THEN <<TRUE, s>>
    ELSE IF Last(s) = 1 THEN <<TRUE, ButLast(s) \o bs>>
    ELSE <<FALSE, <<>>>>

-----------------------------------------------------------------------------
(* Dense *)

\* variant: the leading dimensions of input_shape are dropped
Dense_output_shape_flat(out_dim, shape) == <<out_dim>>

\* output_shape = input_shape[:-1] + (out_dim,)
Dense_output_shape(out_dim, shape) == ButLast(shape) \o <<out_dim>>

Dense_init_fun(out_dim, r, shape) ==
    LET output_shape == Dense_output_shape(out_dim, shape)
        k1 == split(r)[1]
        k2 == split(r)[2]
    IN  IF Len(shape) = 0 THEN Raise("IndexError")
        ELSE LET W == initializer(k1, <<Last(shape), out_dim>>)
                 b == initializer(k2, <<out_dim>>)
             IN  IF ~W.ok \/ ~b.ok THEN Raise("InitializerError")
                 ELSE Ok(output_shape, PairBlob(W.arr, b.arr))

Dense_apply_fun(p, x) ==
    IF p.kind # "pair" THEN ARaise("ValueError")
    ELSE LET d == dot_shape(x.shape, p.W.shape)
         IN  IF ~d[1] THEN ARaise("DotShapeError")
             ELSE LET a == add_shape(d[2], p.b.shape)
                  IN  IF ~a[1] THEN ARaise("BroadcastError")
                      ELSE AOk(Data(a[2], Append(x.ops, [op |-> "Dense", W |-> p.W, b |-> p.b])))

-----------------------------------------------------------------------------
(* Elementwise activation layers (Tanh, Elu, Logistic) *)

Activation_init_fun(r, shape) == Ok(shape, EmptyBlob)

Activation_apply_fun(name, p, x) ==
    AOk(Data(x.shape, Append(x.ops, [op |-> name, W |-> NoArr, b |-> NoArr])))

\* the call init_fun(layer_rng, input_shape) of a layer of the sequence
layer_init(layer, r, shape) ==
    IF layer.kind = "Dense" THEN Dense_init_fun(layer.out_dim, r, shape)
    ELSE Activation_init_fun(r, shape)

\* the call fun(param, inputs, rng=rng, **kwargs) of a layer of the sequence
layer_apply(layer, p, x, r) ==
    IF layer.kind = "Dense" THEN Dense_apply_fun(p, x)
    ELSE Activation_apply_fun(layer.kind, p, x)

-----------------------------------------------------------------------------
(* serial *)

TypeOK == pc \in {"idle", "serialFailed", "ready", "init", "initDone", "initFailed",
                  "apply", "applyDone", "applyFailed"}

Init ==
    /\ pc = "idle"
    /\ layers = <<>>
    /\ nlayers = 0
    /\ init_funs = <<>>
    /\ apply_funs = <<>>
    /\ badShapeInit \in {"raises", "returns"}
    /\ rng0 = None
    /\ input_shape0 = <<>>
    /\ rng = None
    /\ input_shape = <<>>
    /\ params = <<>>
    /\ it = 1
    /\ layer_rngs = <<>>
    /\ layer_shapes = <<>>
    /\ split_rngs = {}
    /\ initLog = {}
    /\ aparams = <<>>
    /\ aparams0 = <<>>
    /\ ainputs0 = Data(<<>>, <<>>)
    /\ arng = None
    /\ rngs = <<>>
    /\ inputs = Data(<<>>, <<>>)
    /\ apply_calls = <<>>
    /\ err = NoError

initVars == <<rng0, input_shape0, rng, input_shape, params, layer_rngs,
              layer_shapes, split_rngs>>
applyVars == <<aparams, aparams0, ainputs0, arng, rngs, inputs, apply_calls>>
serialVars == <<layers, nlayers, init_funs, apply_funs, badShapeInit>>

\* serial(*layers): nlayers = len(layers); init_funs, apply_funs = zip(*layers)
serial(ls) ==
    /\ pc = "idle"
    /\ layers' = ls
    /\ nlayers' = Len(ls)
    /\ IF ZipStarLen(ls) = 2
       THEN /\ init_funs' = ls
            /\ apply_funs' = ls
            /\ pc' = "ready"
            /\ err' = NoError
       ELSE /\ pc' = "serialFailed"
            /\ err' = "ValueError"
            /\ UNCHANGED <<init_funs, apply_funs>>
    /\ UNCHANGED <<badShapeInit, it, initLog>>
    /\ UNCHANGED initVars
    /\ UNCHANGED applyVars

\* the composite exists and no call is running
CanCall == pc \in {"ready", "initDone", "initFailed", "applyDone", "applyFailed"}

\* the locals of a call that has returned are gone
NoInitFrame ==
    /\ rng0' = None
    /\ input_shape0' = <<>>
    /\ rng' = None
    /\ input_shape' = <<>>
    /\ params' = <<>>
    /\ layer_rngs' = <<>>
    /\ layer_shapes' = <<>>
    /\ split_rngs' = {}

NoApplyFrame ==
    /\ aparams' = <<>>
    /\ aparams0' = <<>>
    /\ ainputs0' = Data(<<>>, <<>>)
    /\ arng' = None
    /\ rngs' = <<>>
    /\ inputs' = Data(<<>>, <<>>)
    /\ apply_calls' = <<>>

\* init_fun(rng, input_shape): entry, params = []
init_call(r, shape) ==
    /\ CanCall
    /\ \/ Cardinality(initLog) < MaxInitResults
       \/ \E e \in initLog : e.rng = r /\ e.input_shape = shape
    /\ pc' = "init"
    /\ rng0' = r
    /\ input_shape0' = shape
    /\ rng' = r
    /\ input_shape' = shape
    /\ params' = <<>>
    /\ it' = 1
    /\ layer_rngs' = <<>>
    /\ layer_shapes' = <<>>
    /\ split_rngs' = {}
    /\ err' = NoError
    /\ UNCHANGED initLog
    /\ UNCHANGED serialVars
    /\ NoApplyFrame

\* variant: the running rng is not replaced by the continuation seed
init_split_stale(r) == [rng |-> r, layer_rng |-> split(r)[2]]

\* rng, layer_rng = random.split(rng)
init_split(r) == [rng |-> split(r)[1], layer_rng |-> split(r)[2]]

\* variant: the new blob is put in front
append_front(ps, p) == <<p>> \o ps

\* params.append(param)
append(ps, p) == Append(ps, p)

LogEntry(status, shape, ps, e) ==
    [rng |-> rng0, input_shape |-> input_shape0, status |-> status,
     output_shape |-> shape, params |-> ps, err |-> e]

\* one iteration of: for init_fun in init_funs
init_step ==
    /\ pc = "init"
    /\ it <= Len(init_funs)
    /\ LET sp == init_split(rng)
           res == layer_init(init_funs[it], sp.layer_rng, input_shape)
       IN  /\ rng' = sp.rng
           /\ split_rngs' = split_rngs \cup {rng}
           /\ layer_rngs' = Append(layer_rngs, sp.layer_rng)
           /\ layer_shapes' = Append(layer_shapes, input_shape)
           /\ IF res.status = "ok"
              THEN /\ input_shape' = res.output_shape
                   /\ params' = append(params, res.params)
                   /\ it' = it + 1
                   /\ UNCHANGED <<pc, err, initLog>>
              ELSE /\ pc' = "initFailed"
                   /\ err' = res.err
                   /\ initLog' = initLog \cup {LogEntry("raise", <<>>, <<>>, res.err)}
                   /\ UNCHANGED <<input_shape, params, it>>
    /\ UNCHANGED <<rng0, input_shape0>>
    /\ UNCHANGED serialVars
    /\ UNCHANGED applyVars

\* return input_shape, params
init_return ==
    /\ pc = "init"
    /\ it > Len(init_funs)
    /\ pc' = "initDone"
    /\ initLog' = initLog \cup {LogEntry("ok", input_shape, params, NoError)}
    /\ UNCHANGED <<it, err>>
    /\ UNCHANGED initVars
    /\ UNCHANGED serialVars
    /\ UNCHANGED applyVars

\* parameter sequences a caller passes to apply_fun: what an earlier init_fun
\* returned, a leading part of it, or it with one surplus entry
Prefixes(ps) == {SubSeq(ps, 1, n) : n \in 0..Len(ps)}
ParamChoices ==
    UNION {Prefixes(e.params) \cup {Append(e.params, EmptyBlob)} :
           e \in {l \in initLog : l.status = "ok"}}

\* apply_fun(params, inputs, **kwargs): entry, rng and rngs
apply_call(p, x, r) ==
    /\ CanCall
    /\ pc' = "apply"
    /\ aparams' = p
    /\ aparams0' = p
    /\ ainputs0' = x
    /\ arng' = r
    /\ rngs' = IF r # None THEN splitN(r, nlayers) ELSE [j \in 1..nlayers |-> None]
    /\ inputs' = x
    /\ it' = 1
    /\ apply_calls' = <<>>
    /\ err' = NoError
    /\ UNCHANGED initLog
    /\ UNCHANGED serialVars
    /\ NoInitFrame

\* one iteration of: for fun, param, rng in zip(apply_funs, params, rngs)
apply_step ==
    /\ pc = "apply"
    /\ it <= Len(zip3(apply_funs, aparams, rngs))
    /\ LET z == zip3(apply_funs, aparams, rngs)[it]
           res == layer_apply(z[1], z[2], inputs, z[3])
       IN  /\ apply_calls' = Append(apply_calls,
                [fun |-> z[1], param |-> z[2], inputs |-> inputs, rng |-> z[3],
                 status |-> res.status, err |-> res.err, out |-> res.out])
           /\ IF res.status = "ok"
              THEN /\ inputs' = res.out
                   /\ it' = it + 1
                   /\ UNCHANGED <<pc, err>>
              ELSE /\ pc' = "applyFailed"
                   /\ err' = res.err
                   /\ UNCHANGED <<inputs, it>>
    /\ UNCHANGED <<initLog, aparams, aparams0, ainputs0, arng, rngs>>
    /\ UNCHANGED serialVars
    /\ UNCHANGED initVars

\* return inputs
apply_return ==
    /\ pc = "apply"
    /\ it > Len(zip3(apply_funs, aparams, rngs))
    /\ pc' = "applyDone"
    /\ UNCHANGED <<it, err, initLog>>
    /\ UNCHANGED serialVars
    /\ UNCHANGED initVars
    /\ UNCHANGED applyVars

Next ==
    \/ \E ls \in LayerSeqs : serial(ls)
    \/ \E r \in RootKeys, shape \in InputShapes : init_call(r, shape)
    \/ init_step
    \/ init_return
    \/ \E p \in ParamChoices, s \in DataShapes, r \in ApplyRngs :
            apply_call(p, Data(s, <<>>), r)
    \/ apply_step
    \/ apply_return

Spec == Init /\ [][Next]_vars

-----------------------------------------------------------------------------
(* Properties *)

InitFrame == pc \in {"init", "initDone", "initFailed"}
ApplyFrame == pc \in {"apply", "applyDone", "applyFailed"}

OkEntries == {e \in initLog : e.status = "ok"}

\* the entry of initLog written by the init_fun call that has just returned
Returned == LogEntry("ok", input_shape, params, NoError)

\* a shape with its last dimension replaced by n, an empty shape being left alone
WithLast(s, n) == [j \in 1..Len(s) |-> IF j = Len(s) THEN n ELSE s[j]]

\* the output shape a layer is to announce for the input shape s
ShapeAfter(layer, s) == IF layer.kind = "Dense" THEN WithLast(s, layer.out_dim) ELSE s

\* C1: when the composite init_fun returns, its parameter sequence has one
\* entry per layer, and entry i is the blob that layer i's own init_fun
\* returns for the seed and shape it was handed: a (W, b) pair for a Dense
\* layer, the empty blob for an activation layer, in declared layer order.
C1_ParamsAlignedWithLayers ==
    pc = "initDone" =>
        /\ Returned \in initLog
        /\ Len(params) = Len(layers)
        /\ \A i \in 1..Len(layers) :
            /\ params[i] = layer_init(layers[i], layer_rngs[i], layer_shapes[i]).params
            /\ (params[i].kind = "pair") <=> (layers[i].kind = "Dense")
            /\ layers[i].kind = "Dense" =>
                /\ params[i].W.seed = layer_rngs[i] \o <<0>>
                /\ params[i].b.seed = layer_rngs[i] \o <<1>>

C1_Witness ==
    /\ pc = "initDone"
    /\ layers = NotebookModel
    /\ Len(params) = 4
    /\ params[1].kind = "pair" /\ params[2].kind = "empty"
    /\ params[3].kind = "pair" /\ params[4].kind = "empty"
    /\ params[1] # params[3]

\* C2: in the composite init_fun the first layer is handed the caller's
\* input shape, every later layer the output shape of the layer before it,
\* and the composite returns the last layer's output shape; a Dense layer
\* that returns keeps every dimension but the last, which becomes out_dim,
\* and draws W of shape (last input dimension, out_dim) and b of shape
\* (out_dim,).  For [Dense(20), Activation, Dense(1), Activation] and input
\* shape (-1, 41) the result is (-1, 1) with W1 (41, 20), b1 (20,),
\* W2 (20, 1), b2 (1,).
C2_ShapePropagation ==
    /\ InitFrame =>
        /\ \A i \in 1..Len(layer_shapes) :
              layer_shapes[i] = IF i = 1 THEN input_shape0
                                ELSE ShapeAfter(layers[i - 1], layer_shapes[i - 1])
        /\ \A i \in 1..Len(params) :
              layers[i].kind = "Dense" =>
                /\ Len(layer_shapes[i]) >= 1
                /\ params[i].W.shape = <<layer_shapes[i][Len(layer_shapes[i])], layers[i].out_dim>>
                /\ params[i].b.shape = <<layers[i].out_dim>>
        /\ input_shape = IF Len(params) = 0 THEN input_shape0
                         ELSE ShapeAfter(layers[Len(params)], layer_shapes[Len(params)])
    /\ pc = "initDone" =>
        /\ Returned \in initLog
        /\ Len(params) = Len(layers)
    /\ (pc = "initDone" /\ input_shape0 = <<-1, 41>>
            /\ layers \in {NotebookModel, SketchModel}) =>
        /\ input_shape = <<-1, 1>>
        /\ params[1].W.shape = <<41, 20>>
        /\ params[1].b.shape = <<20>>
        /\ params[3].W.shape = <<20, 1>>
        /\ params[3].b.shape = <<1>>

C2_Witness ==
    /\ pc = "initDone"
    /\ layers = NotebookModel
    /\ input_shape0 = <<-1, 41>>
    /\ input_shape = <<-1, 1>>
    /\ layer_shapes = <<<<-1, 41>>, <<-1, 20>>, <<-1, 20>>, <<-1, 1>>>>

\* C3: within one composite init_fun call no two layers are handed the same
\* seed, and no layer is handed the root seed, a seed the composite has
\* split, or the running seed it will split next.
C3_DistinctLayerSeeds ==
    InitFrame =>
        /\ \A i, j \in 1..Len(layer_rngs) : i # j => layer_rngs[i] # layer_rngs[j]
        /\ \A i \in 1..Len(layer_rngs) :
            /\ layer_rngs[i] # rng0
            /\ layer_rngs[i] \notin split_rngs
            /\ layer_rngs[i] # rng

C3_Witness ==
    /\ pc = "initDone"
    /\ Len(layer_rngs) = 4
    /\ Cardinality({layer_rngs[i] : i \in 1..4}) = 4
    /\ Cardinality(split_rngs) = 4

\* C4: two runs of the composite init_fun with the same seed and input shape
\* have the same outcome, output shape and parameter values, whatever init
\* and apply calls came before.
C4_InitDeterministic ==
    /\ \A e1, e2 \in initLog :
          (e1.rng = e2.rng /\ e1.input_shape = e2.input_shape) => e1 = e2
    /\ (pc = "init" /\ it > Len(init_funs)) =>
          \A e \in initLog :
              (e.rng = rng0 /\ e.input_shape = input_shape0) =>
                  /\ e.status = "ok"
                  /\ e.output_shape = input_shape
                  /\ e.params = params

\* a second run with the arguments of an earlier one is about to return,
\* after a run with another input shape
C4_Witness ==
    /\ pc = "init"
    /\ it > Len(init_funs)
    /\ Len(params) >= 2
    /\ \E e \in initLog : e.rng = rng0 /\ e.input_shape = input_shape0 /\ e.params = params
    /\ \E e \in initLog :
          e.input_shape # input_shape0 /\ e.status = "ok" /\ Len(e.params) >= 2

\* C5 (as claimed): a Dense layer whose input shape ends in the wildcard -1
\* makes init fail with a ShapeError.
C5_WildcardRaisesShapeError ==
    \A i \in 1..Len(layer_shapes) :
        (/\ InitFrame
         /\ layers[i].kind = "Dense"
         /\ Len(layer_shapes[i]) >= 1
         /\ layer_shapes[i][Len(layer_shapes[i])] = -1)
        => (pc = "initFailed" /\ err = "ShapeError")

\* C6 (as claimed): when the data reaching a layer disagrees with the layer's
\* stored parameter dimensions, the composite apply_fun fails with a
\* CompositionError.
C6_MismatchRaisesCompositionError ==
    (/\ pc = "applyFailed"
     /\ Len(apply_calls) >= 1
     /\ apply_calls[Len(apply_calls)].fun.kind = "Dense"
     /\ apply_calls[Len(apply_calls)].param.kind = "pair"
     /\ apply_calls[Len(apply_calls)].inputs.shape[Len(apply_calls[Len(apply_calls)].inputs.shape)]
            # apply_calls[Len(apply_calls)].param.W.shape[1])
    => err = "CompositionError"

\* C7: if the composite init_fun on input shape (-1, d) returned
\* (output_shape, params), then the composite apply_fun on those params and
\* data of shape (n, d) does not fail and returns data whose shape is
\* output_shape with the leading -1 replaced by n; for [Dense(20), Tanh,
\* Dense(1), Logistic], init on (-1, 41) gives (-1, 1) and apply on a
\* 1000 x 41 table gives a 1000 x 1 output.
C7_InitApplyShapesAgree ==
    /\ \A e \in OkEntries :
          (/\ ApplyFrame
           /\ e.params = aparams0
           /\ Len(e.params) = Len(layers)
           /\ Len(e.input_shape) = 2
           /\ e.input_shape[1] = -1
           /\ Len(ainputs0.shape) = 2
           /\ ainputs0.shape[2] = e.input_shape[2])
          => /\ pc # "applyFailed"
             /\ pc = "applyDone" =>
                  /\ Len(e.output_shape) = 2
                  /\ e.output_shape[1] = -1
                  /\ inputs.shape = <<ainputs0.shape[1], e.output_shape[2]>>
    /\ \A e \in OkEntries :
          (layers = SketchModel /\ e.input_shape = <<-1, 41>>) =>
              /\ e.output_shape = <<-1, 1>>
              /\ (pc = "applyDone" /\ aparams0 = e.params /\ ainputs0.shape = <<1000, 41>>)
                    => inputs.shape = <<1000, 1>>

C7_Witness ==
    /\ pc = "applyDone"
    /\ layers = SketchModel
    /\ ainputs0.shape = <<1000, 41>>
    /\ inputs.shape = <<1000, 1>>
    /\ \E e \in OkEntries : e.input_shape = <<-1, 41>> /\ e.params = aparams0

\* C8: the composite apply_fun, given the parameter sequence its own
\* init_fun returned, calls the layers' apply functions in declared order,
\* layer i with the blob at index i and the output of layer i - 1 (the
\* caller's inputs for the first); when it returns it has called every
\* layer once and returns the last layer's output; the parameter sequence
\* is left as it was passed.
C8_ApplyInOrder ==
    (ApplyFrame /\ \E e \in OkEntries : e.params = aparams0 /\ Len(e.params) = Len(layers)) =>
        /\ aparams = aparams0
        /\ Len(apply_calls) <= Len(layers)
        /\ \A i \in 1..Len(apply_calls) :
            /\ apply_calls[i].fun = layers[i]
            /\ apply_calls[i].param = aparams0[i]
            /\ apply_calls[i].inputs = IF i = 1 THEN ainputs0 ELSE apply_calls[i - 1].out
            /\ i < Len(apply_calls) => apply_calls[i].status = "ok"
        /\ pc = "applyDone" =>
            /\ Len(apply_calls) = Len(layers)
            /\ inputs = apply_calls[Len(layers)].out
            /\ Len(inputs.ops) = Len(layers)
            /\ \A i \in 1..Len(layers) : inputs.ops[i].op = layers[i].kind

C8_Witness ==
    /\ pc = "applyDone"
    /\ layers = NotebookModel
    /\ Len(apply_calls) = 4
    /\ \E e \in OkEntries : e.params = aparams0
    /\ inputs.ops[1].W = aparams0[1].W
    /\ inputs.ops[3].W = aparams0[3].W
    /\ aparams0[1].W # aparams0[3].W

\* C9: the composite apply_fun given fewer parameter entries than layers
\* does not fail for that: it applies the first len(params) layers in order
\* and returns their result; parameter entries beyond the number of layers
\* are ignored.
C9_ShortParamsSkipLayers ==
    ApplyFrame =>
        /\ Len(apply_calls) <= Min(Len(aparams0), Len(layers))
        /\ \A i \in 1..Len(apply_calls) :
            /\ apply_calls[i].fun = layers[i]
            /\ apply_calls[i].param = aparams0[i]
        /\ pc = "applyFailed" =>
            /\ Len(apply_calls) >= 1
            /\ apply_calls[Len(apply_calls)].status = "raise"
            /\ err = apply_calls[Len(apply_calls)].err
        /\ pc = "applyDone" =>
            /\ Len(apply_calls) = Min(Len(aparams0), Len(layers))
            /\ inputs = IF Len(apply_calls) = 0 THEN ainputs0
                        ELSE apply_calls[Len(apply_calls)].out
            /\ Len(inputs.ops) = Min(Len(aparams0), Len(layers))

C9_Witness ==
    /\ pc = "applyDone"
    /\ layers = NotebookModel
    /\ Len(aparams0) = 2
    /\ Len(apply_calls) = 2
    /\ inputs.shape = <<1000, 20>>
    /\ inputs = apply_calls[2].out

\* C10: serial called with no layers fails in its construction: no
\* (init_fun, apply_fun) pair exists and no call is ever made on it.
C10_EmptySerialFails ==
    (Len(layers) = 0 /\ pc # "idle") =>
        /\ pc = "serialFailed"
        /\ err = "ValueError"
        /\ initLog = {}
        /\ apply_calls = <<>>

C10_Witness ==
    /\ pc = "serialFailed"
    /\ layers = <<>>
    /\ err = "ValueError"

====
